---- MODULE Spec2Model ----
(***************************************************************************)
(* Model of cohomology-bot (src/bot.py): the `simplicial` command, its     *)
(* edge-string parser, simplicial_complex_from_edges, betti_numbers_1d     *)
(* and euler_characteristic.                                               *)
(*                                                                         *)
(* A Python str is a sequence of code points; a vertex label is a str.     *)
(* A Python list is a sequence, a set is a set, a tuple (u, v) is <<u, v>>.*)
(***************************************************************************)
EXTENDS Integers, Sequences, FiniteSets, TLC

VARIABLES edge_str, parts, part_i, edges, vertices, edges_sorted, adj,
          visited, stack, start, idx, components, beta0, beta1, chi,
          addlog, reply, pc

vars == <<edge_str, parts, part_i, edges, vertices, edges_sorted, adj,
          visited, stack, start, idx, components, beta0, beta1, chi,
          addlog, reply, pc>>

(***************************************************************************)
(* Bounds of the model.                                                    *)
(***************************************************************************)
\* number of distinct vertex labels the enumerated edge lists draw from
NumLabels == 3
\* longest enumerated list of pairs handed to simplicial_complex_from_edges
MaxLen == 3
\* longest enumerated edge_str handed to the simplicial command
MaxStrLen == 5

(***************************************************************************)
(* Characters the parser distinguishes.                                    *)
(***************************************************************************)
Comma == 44
Dash == 45
Space == 32

\* the characters the enumerated command strings are made of: ' ' ',' '-' 'a' 'b'
Alphabet == {Space, Comma, Dash, 97, 98}

\* labels "b", "ab", "a", "c", "ba", "d", "aa": the first NumLabels are used
LabelPool == << <<98>>, <<97, 98>>, <<97>>, <<99>>, <<98, 97>>, <<100>>, <<97, 97>> >>

Labels == {LabelPool[i] : i \in 1..NumLabels}

(***************************************************************************)
(* Python's orderings.                                                     *)
(***************************************************************************)
Min2(x, y) == IF x < y THEN x ELSE y

\* str.__lt__: lexicographic by code point, a proper prefix is smaller
StrLess(s, t) ==
    \/ \E k \in 1..Min2(Len(s), Len(t)) :
          /\ \A j \in 1..(k - 1) : s[j] = t[j]
          /\ s[k] < t[k]
    \/ /\ Len(s) < Len(t)
       /\ \A j \in 1..Len(s) : s[j] = t[j]

\* tuple.__lt__ on pairs of str
PairLess(p, q) ==
    \/ StrLess(p[1], q[1])
    \/ p[1] = q[1] /\ StrLess(p[2], q[2])

\* sorted(vertices) on a set of str
RECURSIVE SortedVertices(_)
SortedVertices(S) ==
    IF S = {} THEN <<>>
    ELSE LET m == CHOOSE x \in S : \A y \in S : y = x \/ StrLess(x, y)
         IN  <<m>> \o SortedVertices(S \ {m})

\* one insertion of the stable sort: e goes after every element not greater
RECURSIVE InsertEdge(_, _)
InsertEdge(s, e) ==
    IF s = <<>> THEN <<e>>
    ELSE IF PairLess(e, Head(s)) THEN <<e>> \o s
    ELSE <<Head(s)>> \o InsertEdge(Tail(s), e)

\* sorted(edges_sorted) on a list of pairs (duplicates, if any, are kept)
RECURSIVE SortedEdges(_)
SortedEdges(s) ==
    IF s = <<>> THEN <<>>
    ELSE InsertEdge(SortedEdges(SubSeq(s, 1, Len(s) - 1)), s[Len(s)])

(***************************************************************************)
(* simplicial_complex_from_edges                                           *)
(***************************************************************************)
\* slip: no pair is taken for a loop
IsLoop_Never(u, v) == FALSE

\* if u == v: continue
IsLoop(u, v) == u = v

\* slip: the pair is kept as written
CanonPair_AsWritten(u, v) == <<u, v>>

\* a, b = sorted((u, v))
CanonPair(u, v) == IF StrLess(v, u) THEN <<v, u>> ELSE <<u, v>>

\* slip: vertices.add(b) is missing
AddVertices_FirstOnly(vs, p) == vs \cup {p[1]}

\* vertices.add(a); vertices.add(b)
AddVertices(vs, p) == vs \cup {p[1], p[2]}

InSeq(s, e) == \E k \in 1..Len(s) : s[k] = e

\* slip: the membership test is missing
AppendAlways(acc, p) == Append(acc, p)

\* if (a, b) not in edges_sorted: edges_sorted.append((a, b))
AppendIfNew(acc, p) == IF InSeq(acc, p) THEN acc ELSE Append(acc, p)

\* the for loop over the input pairs, from pair i on
RECURSIVE BuildLoop(_, _, _, _)
BuildLoop(es, i, vs, acc) ==
    IF i > Len(es) THEN <<vs, acc>>
    ELSE LET u == es[i][1]
             v == es[i][2]
         IN  IF IsLoop(u, v) THEN BuildLoop(es, i + 1, vs, acc)
             ELSE LET p == CanonPair(u, v)
                  IN  BuildLoop(es, i + 1, AddVertices(vs, p), AppendIfNew(acc, p))

simplicial_complex_from_edges(es) ==
    LET r == BuildLoop(es, 1, {}, <<>>)
    IN  <<SortedVertices(r[1]), SortedEdges(r[2])>>

(***************************************************************************)
(* betti_numbers_1d and euler_characteristic                               *)
(***************************************************************************)
\* adj = {v: [] for v in vertices}
EmptyAdj(vs) == [v \in {vs[k] : k \in 1..Len(vs)} |-> <<>>]

\* slip: adj[v].append(u) is missing
AdjAppendOneWay(a, u, v) == [a EXCEPT ![u] = Append(@, v)]

\* adj[u].append(v); adj[v].append(u)
AdjAppendBoth(a, u, v) ==
    LET a1 == [a EXCEPT ![u] = Append(@, v)]
    IN  [a1 EXCEPT ![v] = Append(@, u)]

\* the for loop over the edges, from edge i on; ok is FALSE when a lookup
\* adj[u] or adj[v] raises KeyError
RECURSIVE AdjLoop(_, _, _)
AdjLoop(es, i, a) ==
    IF i > Len(es) THEN [ok |-> TRUE, adj |-> a]
    ELSE LET u == es[i][1]
             v == es[i][2]
         IN  IF u \notin DOMAIN a \/ v \notin DOMAIN a
             THEN [ok |-> FALSE, adj |-> a]
             ELSE AdjLoop(es, i + 1, AdjAppendBoth(a, u, v))

\* slip: the popped node is marked without the test
ShouldVisit_Always(node, vis) == TRUE

\* if node not in visited:
ShouldVisit(node, vis) == node \notin vis

\* for nei in adj[node]: if nei not in visited: stack.append(nei)
PushNeighbours(stk, nbrs, vis) ==
    stk \o SelectSeq(nbrs, LAMBDA nei : nei \notin vis)

\* slip: V and E exchanged
Beta1Of_Exchanged(E, V, b0) == V - E + b0

\* slip: the formula of a connected graph
Beta1Of_Connected(E, V, b0) == E - V + 1

\* beta1 = E - V + beta0
Beta1Of(E, V, b0) == E - V + b0

\* slip: the sum instead of the difference
euler_characteristic_Sum(b0, b1) == b0 + b1

\* return beta0 - beta1
euler_characteristic(b0, b1) == b0 - b1

\* dfs(start) run to its return: the visited set it leaves
RECURSIVE DfsRun(_, _, _)
DfsRun(stk, vis, a) ==
    IF stk = <<>> THEN vis
    ELSE LET node == stk[Len(stk)]
             rest == SubSeq(stk, 1, Len(stk) - 1)
         IN  IF ShouldVisit(node, vis)
             THEN DfsRun(PushNeighbours(rest, a[node], vis \cup {node}),
                         vis \cup {node}, a)
             ELSE DfsRun(rest, vis, a)

\* the outer for loop run to its end, from vertex i on: components
RECURSIVE CountLoop(_, _, _, _, _)
CountLoop(vs, i, vis, comps, a) ==
    IF i > Len(vs) THEN comps
    ELSE IF vs[i] \notin vis
         THEN CountLoop(vs, i + 1, DfsRun(<<vs[i]>>, vis, a), comps + 1, a)
         ELSE CountLoop(vs, i + 1, vis, comps, a)

\* betti_numbers_1d as a function of its arguments (raised is TRUE for the
\* KeyError of the adjacency loop)
betti_numbers_1d(vs, es) ==
    LET r == AdjLoop(es, 1, EmptyAdj(vs))
    IN  IF ~r.ok THEN [raised |-> TRUE, beta0 |-> 0, beta1 |-> 0]
        ELSE LET b0 == CountLoop(vs, 1, {}, 0, r.adj)
             IN  [raised |-> FALSE, beta0 |-> b0,
                  beta1 |-> Beta1Of(Len(es), Len(vs), b0)]

(***************************************************************************)
(* Inputs.                                                                 *)
(***************************************************************************)
Pairs == Labels \X Labels

LA == <<97>>
LB == <<98>>
LC == <<99>>
LD == <<100>>
LE == <<101>>
LF == <<102>>

\* the edge lists of the documented test cases
TwoTriangles == << <<LA, LB>>, <<LB, LC>>, <<LC, LA>>, <<LD, LE>>, <<LE, LF>>, <<LF, LD>> >>
PathABCD == << <<LA, LB>>, <<LB, LC>>, <<LC, LD>> >>
OrderAB_CA == << <<LA, LB>>, <<LC, LA>> >>
OrderCA_AB == << <<LC, LA>>, <<LA, LB>> >>
ExampleInputs == {TwoTriangles, PathABCD, OrderAB_CA, OrderCA_AB}

EdgeLists == UNION {[1..n -> Pairs] : n \in 0..MaxLen} \cup ExampleInputs

RECURSIVE SeqOfEdgeSet(_)
SeqOfEdgeSet(F) ==
    IF F = {} THEN <<>>
    ELSE LET m == CHOOSE x \in F : \A y \in F : y = x \/ PairLess(x, y)
         IN  <<m>> \o SeqOfEdgeSet(F \ {m})

\* every complex over the labels in the form the data type allows: sorted
\* distinct vertices (isolated ones included), sorted distinct edges a < b
\* between them
GivenComplexes ==
    UNION { { <<SortedVertices(S), SeqOfEdgeSet(F)>> :
                F \in SUBSET {p \in S \X S : StrLess(p[1], p[2])} } :
            S \in SUBSET Labels }

(***************************************************************************)
(* State machine of the core: one call of simplicial_complex_from_edges    *)
(* followed by betti_numbers_1d and euler_characteristic, or               *)
(* betti_numbers_1d and euler_characteristic on a given complex.           *)
(***************************************************************************)
CoreBlank ==
    /\ adj = <<>> /\ visited = {} /\ stack = <<>> /\ start = <<>>
    /\ idx = 0 /\ components = 0 /\ beta0 = 0 /\ beta1 = 0 /\ chi = 0
    /\ addlog = <<>>

CmdBlank == edge_str = <<>> /\ parts = <<>> /\ part_i = 0 /\ reply = "none"

\* nothing has been called yet
Init ==
    /\ CmdBlank
    /\ CoreBlank
    /\ edges = <<>> /\ vertices = <<>> /\ edges_sorted = <<>>
    /\ pc = "idle"

\* vertices, edges_sorted = simplicial_complex_from_edges(edges), for a list
\* of pairs
Build ==
    /\ pc = "idle"
    /\ \E es \in EdgeLists :
          /\ edges' = es
          /\ LET r == simplicial_complex_from_edges(es)
             IN  vertices' = r[1] /\ edges_sorted' = r[2]
    /\ pc' = "built"
    /\ UNCHANGED <<edge_str, parts, part_i, adj, visited, stack, start,
                   idx, components, beta0, beta1, chi, addlog, reply>>

\* a caller holds a complex that may have isolated vertices
Given ==
    /\ pc = "idle"
    /\ \E c \in GivenComplexes : vertices' = c[1] /\ edges_sorted' = c[2]
    /\ pc' = "given"
    /\ UNCHANGED <<edge_str, parts, part_i, edges, adj, visited, stack, start,
                   idx, components, beta0, beta1, chi, addlog, reply>>

\* betti_numbers_1d(vertices, edges_sorted) is entered: the adjacency list is
\* built, visited = set(), components = 0, and the outer for loop starts.
\* The frame holds the complex only; the raw pair list is not passed.
BettiEnter ==
    /\ pc \in {"built", "given"}
    /\ LET r == AdjLoop(edges_sorted, 1, EmptyAdj(vertices))
       IN  /\ adj' = r.adj
           /\ pc' = IF r.ok THEN "outer" ELSE "KeyError"
    /\ edges' = <<>>
    /\ visited' = {}
    /\ components' = 0
    /\ idx' = 1
    /\ UNCHANGED <<edge_str, parts, part_i, vertices, edges_sorted, stack,
                   start, beta0, beta1, chi, addlog, reply>>

\* for v in vertices: if v not in visited: components += 1; dfs(v)
OuterCall ==
    /\ pc = "outer"
    /\ idx <= Len(vertices)
    /\ vertices[idx] \notin visited
    /\ components' = components + 1
    /\ start' = vertices[idx]
    /\ stack' = <<vertices[idx]>>
    /\ pc' = "dfs"
    /\ UNCHANGED <<edge_str, parts, part_i, edges, vertices, edges_sorted, adj,
                   visited, idx, beta0, beta1, chi, addlog, reply>>

\* for v in vertices: v is in visited, next v
OuterSkip ==
    /\ pc = "outer"
    /\ idx <= Len(vertices)
    /\ vertices[idx] \in visited
    /\ idx' = idx + 1
    /\ UNCHANGED <<edge_str, parts, part_i, edges, vertices, edges_sorted, adj,
                   visited, stack, start, components, beta0, beta1, chi,
                   addlog, reply, pc>>

\* node = stack.pop(); node not in visited: mark it and push its unvisited
\* neighbours
DfsVisit ==
    /\ pc = "dfs"
    /\ stack # <<>>
    /\ LET node == stack[Len(stack)]
           rest == SubSeq(stack, 1, Len(stack) - 1)
       IN  /\ ShouldVisit(node, visited)
           /\ visited' = visited \cup {node}
           /\ addlog' = Append(addlog, node)
           /\ stack' = PushNeighbours(rest, adj[node], visited')
    /\ UNCHANGED <<edge_str, parts, part_i, edges, vertices, edges_sorted, adj,
                   start, idx, components, beta0, beta1, chi, reply, pc>>

\* node = stack.pop(); node in visited: nothing else
DfsSkip ==
    /\ pc = "dfs"
    /\ stack # <<>>
    /\ ~ShouldVisit(stack[Len(stack)], visited)
    /\ stack' = SubSeq(stack, 1, Len(stack) - 1)
    /\ UNCHANGED <<edge_str, parts, part_i, edges, vertices, edges_sorted, adj,
                   visited, start, idx, components, beta0, beta1, chi, addlog,
                   reply, pc>>

\* while stack: is false, dfs returns, the outer loop goes to the next v
DfsReturn ==
    /\ pc = "dfs"
    /\ stack = <<>>
    /\ idx' = idx + 1
    /\ pc' = "outer"
    /\ UNCHANGED <<edge_str, parts, part_i, edges, vertices, edges_sorted, adj,
                   visited, stack, start, components, beta0, beta1, chi,
                   addlog, reply>>

\* the outer loop is exhausted: V, E, beta0, beta1; return beta0, beta1
BettiReturn ==
    /\ pc = "outer"
    /\ idx > Len(vertices)
    /\ beta0' = components
    /\ beta1' = Beta1Of(Len(edges_sorted), Len(vertices), components)
    /\ pc' = "betti"
    /\ UNCHANGED <<edge_str, parts, part_i, edges, vertices, edges_sorted, adj,
                   visited, stack, start, idx, components, chi, addlog, reply>>

\* chi = euler_characteristic(beta0, beta1)
Euler ==
    /\ pc = "betti"
    /\ chi' = euler_characteristic(beta0, beta1)
    /\ pc' = "done"
    /\ UNCHANGED <<edge_str, parts, part_i, edges, vertices, edges_sorted, adj,
                   visited, stack, start, idx, components, beta0, beta1,
                   addlog, reply>>

Next ==
    \/ Build
    \/ Given
    \/ BettiEnter
    \/ OuterCall
    \/ OuterSkip
    \/ DfsVisit
    \/ DfsSkip
    \/ DfsReturn
    \/ BettiReturn
    \/ Euler

Spec == Init /\ [][Next]_vars

\* the statements of betti_numbers_1d and euler_characteristic
Running ==
    \/ BettiEnter
    \/ OuterCall
    \/ OuterSkip
    \/ DfsVisit
    \/ DfsSkip
    \/ DfsReturn
    \/ BettiReturn
    \/ Euler

\* a call may never come; once a function is entered the interpreter runs
\* its next statement as long as there is one
LiveSpec == Init /\ [][Next]_vars /\ WF_vars(Running)

(***************************************************************************)
(* The simplicial command: the edge-string parser, up to the reply that no *)
(* edge was parsed or the call of the core with the parsed pairs.          *)
(***************************************************************************)
HasChar(s, c) == \E k \in 1..Len(s) : s[k] = c

\* str.split(sep) for a one-character sep: one piece more than there are
\* occurrences of sep, empty pieces included
RECURSIVE Split(_, _)
Split(s, sep) ==
    IF ~HasChar(s, sep) THEN <<s>>
    ELSE LET k == CHOOSE j \in 1..Len(s) :
                     s[j] = sep /\ \A m \in 1..(j - 1) : s[m] # sep
         IN  <<SubSeq(s, 1, k - 1)>> \o Split(SubSeq(s, k + 1, Len(s)), sep)

\* str.strip(): leading and trailing whitespace removed
RECURSIVE Strip(_)
Strip(s) ==
    IF s = <<>> THEN s
    ELSE IF s[1] = Space THEN Strip(Tail(s))
    ELSE IF s[Len(s)] = Space THEN Strip(SubSeq(s, 1, Len(s) - 1))
    ELSE s

\* part = part.strip()
CurPart == Strip(parts[part_i])

\* u, v = part.split("-") succeeds only for exactly two pieces
Unpacks(pieces) == Len(pieces) = 2

Strings == UNION {[1..n -> Alphabet] : n \in 0..MaxStrLen}

InitCmd ==
    /\ CoreBlank
    /\ edge_str \in Strings
    /\ parts = <<>> /\ part_i = 0 /\ reply = "none"
    /\ edges = <<>> /\ vertices = <<>> /\ edges_sorted = <<>>
    /\ pc = "cmd"

\* parts = edge_str.split(","); edges = []
CmdSplit ==
    /\ pc = "cmd"
    /\ parts' = Split(edge_str, Comma)
    /\ part_i' = 1
    /\ edges' = <<>>
    /\ pc' = "parse"
    /\ UNCHANGED <<edge_str, vertices, edges_sorted, adj, visited, stack, start,
                   idx, components, beta0, beta1, chi, addlog, reply>>

\* if "-" not in part: continue
ParseNoDash ==
    /\ pc = "parse"
    /\ part_i <= Len(parts)
    /\ ~HasChar(CurPart, Dash)
    /\ part_i' = part_i + 1
    /\ UNCHANGED <<edge_str, parts, edges, vertices, edges_sorted, adj, visited,
                   stack, start, idx, components, beta0, beta1, chi, addlog,
                   reply, pc>>

\* u, v = part.split("-"); both stripped sides non-empty: edges.append((u, v))
ParsePair ==
    /\ pc = "parse"
    /\ part_i <= Len(parts)
    /\ HasChar(CurPart, Dash)
    /\ LET pieces == Split(CurPart, Dash)
       IN  /\ Unpacks(pieces)
           /\ Strip(pieces[1]) # <<>> /\ Strip(pieces[2]) # <<>>
           /\ edges' = Append(edges, <<Strip(pieces[1]), Strip(pieces[2])>>)
    /\ part_i' = part_i + 1
    /\ UNCHANGED <<edge_str, parts, vertices, edges_sorted, adj, visited, stack,
                   start, idx, components, beta0, beta1, chi, addlog, reply, pc>>

\* u, v = part.split("-"); a stripped side is empty: nothing appended
ParseEmptySide ==
    /\ pc = "parse"
    /\ part_i <= Len(parts)
    /\ HasChar(CurPart, Dash)
    /\ LET pieces == Split(CurPart, Dash)
       IN  /\ Unpacks(pieces)
           /\ Strip(pieces[1]) = <<>> \/ Strip(pieces[2]) = <<>>
    /\ part_i' = part_i + 1
    /\ UNCHANGED <<edge_str, parts, edges, vertices, edges_sorted, adj, visited,
                   stack, start, idx, components, beta0, beta1, chi, addlog,
                   reply, pc>>

\* u, v = part.split("-") with three or more pieces: ValueError (too many
\* values to unpack) leaves the command without a reply
ParseUnpackError ==
    /\ pc = "parse"
    /\ part_i <= Len(parts)
    /\ HasChar(CurPart, Dash)
    /\ ~Unpacks(Split(CurPart, Dash))
    /\ pc' = "ValueError"
    /\ UNCHANGED <<edge_str, parts, part_i, edges, vertices, edges_sorted, adj,
                   visited, stack, start, idx, components, beta0, beta1, chi,
                   addlog, reply>>

\* if not edges: send the "couldn't parse any edges" message and return
ParseNoEdges ==
    /\ pc = "parse"
    /\ part_i > Len(parts)
    /\ edges = <<>>
    /\ reply' = "no_edges"
    /\ pc' = "sent"
    /\ UNCHANGED <<edge_str, parts, part_i, edges, vertices, edges_sorted, adj,
                   visited, stack, start, idx, components, beta0, beta1, chi,
                   addlog>>

\* edges is not empty: go on to the call of simplicial_complex_from_edges
ParseCallCore ==
    /\ pc = "parse"
    /\ part_i > Len(parts)
    /\ edges # <<>>
    /\ pc' = "core"
    /\ UNCHANGED <<edge_str, parts, part_i, edges, vertices, edges_sorted, adj,
                   visited, stack, start, idx, components, beta0, beta1, chi,
                   addlog, reply>>

NextCmd ==
    \/ CmdSplit
    \/ ParseNoDash
    \/ ParsePair
    \/ ParseEmptySide
    \/ ParseUnpackError
    \/ ParseNoEdges
    \/ ParseCallCore

\* the command up to its call of the core; Build models the call
SpecCmd == InitCmd /\ [][NextCmd]_vars

TypeOK == pc \in {"idle", "core", "given", "built", "outer", "dfs", "betti", "done",
                  "KeyError", "cmd", "parse", "ValueError", "sent"}

(***************************************************************************)
(* Graph notions the properties are stated with.  They are defined from    *)
(* the vertex and edge sets alone, without the traversal.                  *)
(***************************************************************************)
SeqSet(s) == {s[k] : k \in 1..Len(s)}

VSet == SeqSet(vertices)
ESet == SeqSet(edges_sorted)

\* S and everything one edge away from S
Grow(S, E) ==
    S \cup {e[2] : e \in {f \in E : f[1] \in S}}
      \cup {e[1] : e \in {f \in E : f[2] \in S}}

RECURSIVE Closure(_, _)
Closure(S, E) == IF Grow(S, E) = S THEN S ELSE Closure(Grow(S, E), E)

\* the class of v under the reflexive-transitive closure of the edge relation
ReachFrom(v, E) == Closure({v}, E)

NumComponents(V, E) == Cardinality({ReachFrom(v, E) : v \in V})

\* some edge joins two vertices that are connected without it
HasCycle(E) == \E e \in E : e[2] \in ReachFrom(e[1], E \ {e})

NoDuplicates(s) == \A i, j \in 1..Len(s) : s[i] = s[j] => i = j

(***************************************************************************)
(* Properties.                                                             *)
(***************************************************************************)

\* C1: when betti_numbers_1d has returned, for a built complex as for a given
\* complex with isolated vertices, beta0 is the number of equivalence classes
\* of the vertices under the reflexive-transitive closure of the edge
\* relation; two disjoint triangles give beta0 = 2.
C1_Beta0IsComponentCount ==
    pc \in {"betti", "done"} =>
        /\ beta0 = NumComponents(VSet, ESet)
        /\ (VSet = {LA, LB, LC, LD, LE, LF} /\ Len(edges_sorted) = 6 => beta0 = 2)

C1_Witness ==
    /\ pc = "done"
    /\ Len(vertices) = 3
    /\ Len(edges_sorted) = 1
    /\ beta0 = 2

\* C2: when euler_characteristic has returned, chi = beta0 - beta1 and
\* chi = len(vertices) - len(edges).
C2_EulerIdentity ==
    pc = "done" =>
        /\ chi = beta0 - beta1
        /\ chi = Len(vertices) - Len(edges_sorted)

C2_Witness ==
    /\ pc = "done"
    /\ Len(vertices) = 3
    /\ Len(edges_sorted) = 3
    /\ beta0 = 1
    /\ beta1 = 1
    /\ chi = 0

\* C3: beta1 is never negative, it is 0 exactly when the graph has no cycle
\* and positive when it has one.
C3_Beta1CycleRank ==
    pc \in {"betti", "done"} =>
        /\ beta1 >= 0
        /\ (beta1 = 0 <=> ~HasCycle(ESet))
        /\ (HasCycle(ESet) => beta1 > 0)

C3_Witness ==
    /\ pc = "done"
    /\ vertices = <<LA, LB, LC, LD>>
    /\ Len(edges_sorted) = 3
    /\ beta0 = 1
    /\ beta1 = 0

\* C4: the complex simplicial_complex_from_edges returns has strictly
\* ascending vertices, strictly ascending edges, every edge (a, b) with a < b,
\* hence no duplicate and no loop; [(x,y),(x,y),(y,x)] gives one edge and two
\* vertices.
C4_CanonicalComplex ==
    pc = "built" =>
        /\ NoDuplicates(vertices)
        /\ NoDuplicates(edges_sorted)
        /\ \A k \in 1..Len(edges_sorted) :
              /\ edges_sorted[k][1] # edges_sorted[k][2]
              /\ StrLess(edges_sorted[k][1], edges_sorted[k][2])
        /\ \A k \in 1..(Len(vertices) - 1) : StrLess(vertices[k], vertices[k + 1])
        /\ \A k \in 1..(Len(edges_sorted) - 1) :
              PairLess(edges_sorted[k], edges_sorted[k + 1])
        /\ (/\ Len(edges) = 3
            /\ edges[1][1] # edges[1][2]
            /\ edges[2] = edges[1]
            /\ edges[3] = <<edges[1][2], edges[1][1]>>)
           => /\ Len(edges_sorted) = 1
              /\ SeqSet(edges_sorted[1]) = SeqSet(edges[1])
              /\ Len(vertices) = 2

C4_Witness ==
    /\ pc = "built"
    /\ Len(edges) = 3
    /\ edges[1][1] # edges[1][2]
    /\ edges[2] = edges[1]
    /\ edges[3] = <<edges[1][2], edges[1][1]>>
    /\ Len(edges_sorted) = 1
    /\ Len(vertices) = 2

\* the pairs i and i+1 exchanged
SwapAt(es, i) ==
    [k \in 1..Len(es) |->
        IF k = i THEN es[i + 1] ELSE IF k = i + 1 THEN es[i] ELSE es[k]]

\* the pair i turned round
FlipAt(es, i) == [es EXCEPT ![i] = <<@[2], @[1]>>]

\* The exchanges of two neighbouring pairs and the turns of one pair generate
\* every permutation with every choice of turns, and the enumerated lists are
\* closed under them; the reversed list and the list with every pair turned
\* are added.
Rearrangements(es) ==
    {SwapAt(es, i) : i \in 1..(Len(es) - 1)}
      \cup {FlipAt(es, i) : i \in 1..Len(es)}
      \cup {[k \in 1..Len(es) |-> es[Len(es) + 1 - k]]}
      \cup {[k \in 1..Len(es) |-> <<es[k][2], es[k][1]>>]}

\* beta0, beta1, chi of a complex
InvariantsOf(c) ==
    LET b == betti_numbers_1d(c[1], c[2])
    IN  <<b.raised, b.beta0, b.beta1, euler_characteristic(b.beta0, b.beta1)>>

\* C5: a rearranged input list (pairs permuted, pairs turned round) gives the
\* same vertex list, the same edge list and the same beta0, beta1, chi; the
\* stepwise run returns what betti_numbers_1d is as a function.
C5_OrderIndependent ==
    /\ pc = "built" =>
          \A alt \in Rearrangements(edges) :
              LET c == simplicial_complex_from_edges(alt)
              IN  /\ c[1] = vertices
                  /\ c[2] = edges_sorted
                  /\ InvariantsOf(c) = InvariantsOf(<<vertices, edges_sorted>>)
    /\ pc = "done" =>
          InvariantsOf(<<vertices, edges_sorted>>) = <<FALSE, beta0, beta1, chi>>

C5_Witness ==
    /\ pc = "built"
    /\ Len(edges) = 2
    /\ edges[1] = <<LA, LB>>
    /\ edges[2] = <<LC, LA>>
    /\ edges_sorted = << <<LA, LB>>, <<LA, LC>> >>

WithoutLoops(es) == SelectSeq(es, LAMBDA p : p[1] # p[2])

\* C6: the built complex is the one built from the list without its pairs
\* (u, u); only such pairs give the empty complex; a vertex that is in such
\* pairs only is not in the vertex list.
C6_LoopsContributeNothing ==
    pc = "built" =>
        /\ <<vertices, edges_sorted>> = simplicial_complex_from_edges(WithoutLoops(edges))
        /\ (WithoutLoops(edges) = <<>> => vertices = <<>> /\ edges_sorted = <<>>)
        /\ \A x \in VSet : \E k \in 1..Len(edges) :
              edges[k][1] # edges[k][2] /\ x \in SeqSet(edges[k])

C6_Witness ==
    /\ pc = "built"
    /\ Len(edges) = 2
    /\ edges[1][1] = edges[1][2]
    /\ edges[2][1] # edges[2][2]
    /\ edges[1][1] \notin SeqSet(edges[2])
    /\ Len(vertices) = 2

\* C7: the empty list builds the empty complex; on the empty complex
\* beta0 = beta1 = chi = 0; on one isolated vertex beta0 = 1, beta1 = 0,
\* chi = 1.
C7_EmptyAndIsolated ==
    /\ (pc = "built" /\ edges = <<>>) => (vertices = <<>> /\ edges_sorted = <<>>)
    /\ (pc = "done" /\ vertices = <<>> /\ edges_sorted = <<>>)
          => (beta0 = 0 /\ beta1 = 0 /\ chi = 0)
    /\ (pc = "done" /\ Len(vertices) = 1 /\ edges_sorted = <<>>)
          => (beta0 = 1 /\ beta1 = 0 /\ chi = 1)

C7_Witness ==
    /\ pc = "done"
    /\ vertices = <<>>
    /\ edges_sorted = <<>>
    /\ beta0 = 0 /\ beta1 = 0 /\ chi = 0

\* C8: in a built complex every endpoint of an edge is a vertex and every
\* vertex is an endpoint of an edge; the adjacency lookups of
\* betti_numbers_1d never raise KeyError and every adjacency list read by the
\* traversal exists.
C8_EndpointsAreVertices ==
    /\ pc = "built" =>
          /\ \A e \in ESet : e[1] \in VSet /\ e[2] \in VSet
          /\ \A x \in VSet : \E e \in ESet : x \in SeqSet(e)
    /\ pc # "KeyError"
    /\ pc \in {"outer", "dfs", "betti", "done"} =>
          /\ DOMAIN adj = VSet
          /\ SeqSet(stack) \subseteq DOMAIN adj

C8_Witness ==
    /\ pc = "dfs"
    /\ Len(edges_sorted) = 3
    /\ Len(vertices) = 3
    /\ Len(stack) = 2

\* the vertices marked by the current dfs(start) call
MarkedByCall ==
    {addlog[k] : k \in {j \in 1..Len(addlog) :
                          \E p \in 1..j : addlog[p] = start}}

\* C9: the traversal ends; no vertex is added to visited twice; at the end
\* visited is the vertex set and components is the number of connected
\* components; components only ever grows by one, when the outer loop is at
\* an unvisited vertex; a dfs(start) call that returns has marked exactly the
\* vertices reachable from start.
C9_TraversalTerminates ==
    /\ (pc \in {"built", "given"}) ~> (pc = "done")
    /\ [](NoDuplicates(addlog) /\ SeqSet(addlog) = visited)
    /\ [](pc \in {"betti", "done"} =>
            /\ visited = VSet
            /\ Len(addlog) = Len(vertices)
            /\ components = NumComponents(VSet, ESet))
    /\ [](pc = "dfs" /\ stack = <<>> => MarkedByCall = ReachFrom(start, ESet))
    /\ [][components' # components =>
            /\ components' = components + 1
            /\ pc = "outer"
            /\ vertices[idx] \notin visited]_vars

C9_Witness ==
    /\ pc = "done"
    /\ Len(addlog) = 6
    /\ Len(edges_sorted) = 6
    /\ components = 2

\* C10: the parser never fails: a token gives one pair or is skipped, and the
\* "couldn't parse any edges" reply is sent only when no pair was parsed.
C10_ParserNeverFails ==
    /\ pc # "ValueError"
    /\ reply = "no_edges" => edges = <<>>

====
